---- MODULE Spec2Model ----
(***************************************************************************)
(* A state-machine model of the news portal's policy engine (news_app):    *)
(* the role-based article workflow of views.py, the feeds of api_views.py  *)
(* and views.py, the REST write surface of ArticleViewSet and the admin    *)
(* bulk approval of admin.py.  The persistent store (users, publishers,    *)
(* articles, newsletters, the two subscription relations) is the state;    *)
(* every view handling a POST request is one action.  A GET request to any *)
(* of the views only renders a page and never writes the store, so the     *)
(* actions enumerate POST requests, and the GET requests of the pages      *)
(* whose content is specified: home, article_detail and dashboard.         *)
(***************************************************************************)
EXTENDS Integers, Sequences, FiniteSets, TLC

VARIABLES
    role,                   \* CustomUser.role of every account
    is_staff,               \* the accounts the admin site admits (AbstractUser.is_staff)
    subscribed_publishers,  \* CustomUser.subscribed_publishers, per account
    subscribed_journalists, \* CustomUser.subscribed_journalists, per account
    publishers,             \* Publisher rows by id: owner, editors, journalists
    articles,               \* Article rows by id
    next_article_id,        \* the next auto-increment id of Article
    newsletters,            \* Newsletter rows by id
    next_newsletter_id,     \* the next auto-increment id of Newsletter
    response,               \* what the last request answered
    submitted_to,           \* history: the publisher an article was created with
    groups,                 \* CustomUser.groups: the group names of every account
    group_permissions       \* Group.permissions by group name, for existing groups

vars == <<role, is_staff, subscribed_publishers, subscribed_journalists,
          publishers, articles, next_article_id, newsletters,
          next_newsletter_id, response, submitted_to, groups,
          group_permissions>>

store == <<role, is_staff, subscribed_publishers, subscribed_journalists,
           publishers, articles, next_article_id, newsletters,
           next_newsletter_id>>

\* the auth tables: group membership and the permissions of the groups
bundles == <<groups, group_permissions>>

(***************************************************************************)
(* Bounds of the model.                                                    *)
(***************************************************************************)
MaxPublishers == 2
MaxArticles == 1
MaxNewsletters == 1
MaxHomeArticles == 12
MaxFollow == 1

(***************************************************************************)
(* The accounts.  register_view has created them before any content        *)
(* exists; no view changes a role afterwards.                              *)
(***************************************************************************)
Users == {"r1", "j1", "j2", "e1", "e2", "admin"}

UnknownUser == "nobody"   \* a username or id that names no account

\* the role each name registers with; "none" is a name with no account
RoleOf(u) ==
    CASE u \in {"r1", "admin"} -> "reader"
      [] u \in {"j1", "j2"} -> "journalist"
      [] OTHER -> "editor"

Population(registered) ==
    [u \in Users |-> IF u \in registered THEN RoleOf(u) ELSE "none"]

\* the accounts that exist: only they can log in (@login_required)
Accounts == {u \in Users : role[u] # "none"}

\* what a view answers: its name and the outcome of the request
Response(view, outcome) == [view |-> view, outcome |-> outcome]

NullUser == "null"      \* a nullable foreign key to CustomUser that is unset
NullPublisher == 0      \* a nullable foreign key to Publisher that is unset
NullTime == "null"      \* approved_at unset
Now == "now"            \* timezone.now(): some timestamp

PublisherIds == 1..MaxPublishers
ArticleIds == 1..MaxArticles
NewsletterIds == 1..MaxNewsletters

PublisherChoices == PublisherIds \cup {NullPublisher}

Titles == {"t1", "t2"}
Blank == ""             \* a required text field left empty

(***************************************************************************)
(* Queries on the store.                                                   *)
(***************************************************************************)
\* user.associated_publishers.all(): the publishers that list u as journalist
associated_publishers(u) ==
    {p \in DOMAIN publishers : u \in publishers[p].journalists}

\* Publisher.objects.filter(Q(owner=u) | Q(editors=u)).distinct()
user_publishers(u) ==
    {p \in DOMAIN publishers :
        publishers[p].owner = u \/ u \in publishers[p].editors}

\* ids in descending order: order_by('-created_at'), created_at being set once
\* at insertion (auto_now_add), so newer rows have larger ids
RECURSIVE newest_first(_)
newest_first(S) ==
    IF S = {} THEN <<>>
    ELSE LET m == CHOOSE x \in S : \A y \in S : y <= x
         IN <<m>> \o newest_first(S \ {m})

Range(s) == {s[i] : i \in 1..Len(s)}

\* queryset[:n]
Slice(s, n) == IF Len(s) <= n THEN s ELSE SubSeq(s, 1, n)

(***************************************************************************)
(* The role bundle (models.py, signals.py, views.py): creating an account   *)
(* puts it in the group named after its role and grants that group the     *)
(* permissions of the role.  The assignment runs in the two post_save      *)
(* receivers, in CustomUser.save and in register_view.                     *)
(***************************************************************************)
UnlistedRole == "moderator"   \* a role value that ROLE_CHOICES does not list

\* str.capitalize() of a role value
Capitalize(r) ==
    CASE r = "reader" -> "Reader"
      [] r = "journalist" -> "Journalist"
      [] r = "editor" -> "Editor"
      [] OTHER -> "Moderator"

JournalistCodenames ==
    {"add_article", "change_article", "delete_article", "view_article",
     "add_newsletter", "change_newsletter", "delete_newsletter", "view_newsletter"}

EditorCodenames ==
    {"change_article", "view_article", "change_newsletter", "view_newsletter",
     "approve_article"}

\* Group.objects.get_or_create(name=g) on the permissions table gp
get_or_create(gp, g) == IF g \in DOMAIN gp THEN gp ELSE gp @@ (g :> {})

\* the permissions a post_save receiver adds to the group of role r
receiver_permissions(r) ==
    CASE r = "journalist" -> JournalistCodenames
      [] r = "editor" -> EditorCodenames
      [] OTHER -> {}

\* models.set_user_permissions for a created account u of role r, on the
\* auth tables b
models_set_user_permissions(b, u, r) ==
    LET g == Capitalize(r)
        gp == get_or_create(b.group_permissions, g)
    IN [groups |-> [b.groups EXCEPT ![u] = @ \cup {g}],
        group_permissions |-> [gp EXCEPT ![g] = @ \cup receiver_permissions(r)]]

\* signals.set_user_permissions, the receiver apps.py connects
signals_set_user_permissions(b, u, r) ==
    LET g == Capitalize(r)
        gp == get_or_create(b.group_permissions, g)
    IN [groups |-> [b.groups EXCEPT ![u] = @ \cup {g}],
        group_permissions |-> [gp EXCEPT ![g] = @ \cup receiver_permissions(r)]]

\* CustomUser.save, after super().save() has run the receivers: the group add
CustomUser_save(b, u, r) ==
    LET saved == signals_set_user_permissions(
                     models_set_user_permissions(b, u, r), u, r)
        g == Capitalize(r)
    IN [groups |-> [saved.groups EXCEPT ![u] = @ \cup {g}],
        group_permissions |-> get_or_create(saved.group_permissions, g)]

\* a variant of register_view_group that names the group by the raw role
register_view_group_raw(r) == r

\* register_view: the group it adds the new account to
register_view_group(r) == Capitalize(r)

\* CustomUser.objects.create_user followed by register_view's own group add
create_user(b, u, r) ==
    LET saved == CustomUser_save(b, u, r)
        g == register_view_group(r)
    IN [groups |-> [saved.groups EXCEPT ![u] = @ \cup {g}],
        group_permissions |-> get_or_create(saved.group_permissions, g)]

\* the auth tables after the accounts of S have registered, starting from b
RECURSIVE registered_all(_, _)
registered_all(S, b) ==
    IF S = {} THEN b
    ELSE LET u == CHOOSE x \in S : TRUE
         IN registered_all(S \ {u}, create_user(b, u, RoleOf(u)))

NoBundles == [groups |-> [u \in Users |-> {}], group_permissions |-> << >>]

InitWith(registered) ==
    /\ groups = registered_all(registered, NoBundles).groups
    /\ group_permissions = registered_all(registered, NoBundles).group_permissions
    /\ role = Population(registered)
    /\ is_staff = registered \cap {"admin"}
    /\ subscribed_publishers = [u \in Users |-> {}]
    /\ subscribed_journalists = [u \in Users |-> {}]
    /\ publishers = << >>
    /\ articles = << >>
    /\ next_article_id = 1
    /\ newsletters = << >>
    /\ next_newsletter_id = 1
    /\ response = Response("none", "none")
    /\ submitted_to = << >>

(***************************************************************************)
(* Registration and the dashboard (views.py).                              *)
(***************************************************************************)
\* register_view: creates the account username with the submitted role, as
\* submitted; passwords_match is password1 = password2
register_view(username, r, passwords_match) ==
    IF ~passwords_match
    THEN /\ response' = Response("register_view", "invalid")
         /\ UNCHANGED <<store, bundles>>
    ELSE IF username \in Accounts
    THEN /\ response' = Response("register_view", "exists")
         /\ UNCHANGED <<store, bundles>>
    ELSE LET b == create_user([groups |-> groups,
                               group_permissions |-> group_permissions],
                              username, r)
         IN /\ role' = [role EXCEPT ![username] = r]
            /\ groups' = b.groups
            /\ group_permissions' = b.group_permissions
            /\ response' = Response("register_view", "ok")
            /\ UNCHANGED <<is_staff, subscribed_publishers,
                           subscribed_journalists, publishers, articles,
                           next_article_id, newsletters, next_newsletter_id>>

\* dashboard: the branch the role dispatch takes; with a role that is none
\* of the three no branch binds context and render raises
dashboard(u) ==
    /\ response' = Response("dashboard",
                        CASE role[u] = "reader" -> "reader"
                          [] role[u] = "journalist" -> "journalist"
                          [] role[u] = "editor" -> "editor"
                          [] OTHER -> "error")
    /\ UNCHANGED store

(***************************************************************************)
(* Publisher membership (views.py).                                        *)
(***************************************************************************)
\* a variant of register_publisher that leaves the owner out of the editors
register_publisher_owner_only(u) ==
    IF role[u] # "editor"
    THEN /\ response' = Response("register_publisher", "denied")
         /\ UNCHANGED store
    ELSE /\ Cardinality(DOMAIN publishers) < MaxPublishers
         /\ LET id == Cardinality(DOMAIN publishers) + 1
            IN publishers' = publishers @@
                   (id :> [owner |-> u, editors |-> {}, journalists |-> {}])
         /\ response' = Response("register_publisher", "ok")
         /\ UNCHANGED <<role, is_staff, subscribed_publishers,
                        subscribed_journalists, articles, next_article_id,
                        newsletters, next_newsletter_id>>

\* register_publisher: an editor creates a publisher, owns it and is added
\* to its editors
register_publisher(u) ==
    IF role[u] # "editor"
    THEN /\ response' = Response("register_publisher", "denied")
         /\ UNCHANGED store
    ELSE /\ Cardinality(DOMAIN publishers) < MaxPublishers
         /\ LET id == Cardinality(DOMAIN publishers) + 1
            IN publishers' = publishers @@
                   (id :> [owner |-> u, editors |-> {u}, journalists |-> {}])
         /\ response' = Response("register_publisher", "ok")
         /\ UNCHANGED <<role, is_staff, subscribed_publishers,
                        subscribed_journalists, articles, next_article_id,
                        newsletters, next_newsletter_id>>

\* a variant of join_publisher that lists every member in both sets
join_publisher_both_sets(u, p) ==
    IF role[u] \notin {"editor", "journalist"}
    THEN /\ response' = Response("join_publisher", "denied")
         /\ UNCHANGED store
    ELSE IF p \notin DOMAIN publishers
    THEN /\ response' = Response("join_publisher", "notfound")
         /\ UNCHANGED store
    ELSE /\ publishers' = [publishers EXCEPT ![p].editors = @ \cup {u},
                                             ![p].journalists = @ \cup {u}]
         /\ response' = Response("join_publisher", "ok")
         /\ UNCHANGED <<role, is_staff, subscribed_publishers,
                        subscribed_journalists, articles, next_article_id,
                        newsletters, next_newsletter_id>>

\* join_publisher: editors join the editors, journalists the journalists
join_publisher_journalists_only(u, p) ==
    IF role[u] # "journalist"
    THEN /\ response' = Response("join_publisher", "denied")
         /\ UNCHANGED store
    ELSE IF p \notin DOMAIN publishers
    THEN /\ response' = Response("join_publisher", "notfound")
         /\ UNCHANGED store
    ELSE /\ publishers' = [publishers EXCEPT ![p].journalists = @ \cup {u}]
         /\ response' = Response("join_publisher", "ok")
         /\ UNCHANGED <<role, is_staff, subscribed_publishers,
                        subscribed_journalists, articles, next_article_id,
                        newsletters, next_newsletter_id>>

join_publisher(u, p) ==
    IF role[u] \notin {"editor", "journalist"}
    THEN /\ response' = Response("join_publisher", "denied")
         /\ UNCHANGED store
    ELSE IF p \notin DOMAIN publishers
    THEN /\ response' = Response("join_publisher", "notfound")
         /\ UNCHANGED store
    ELSE /\ publishers' =
              IF role[u] = "editor"
              THEN [publishers EXCEPT ![p].editors = @ \cup {u}]
              ELSE [publishers EXCEPT ![p].journalists = @ \cup {u}]
         /\ response' = Response("join_publisher", "ok")
         /\ UNCHANGED <<role, is_staff, subscribed_publishers,
                        subscribed_journalists, articles, next_article_id,
                        newsletters, next_newsletter_id>>

StaffActions == {"add_editor", "remove_editor", "add_journalist", "remove_journalist"}

\* the publisher row after one staff action of manage_publisher on target t
staff_change(pub, action, t) ==
    CASE action = "add_editor" -> [pub EXCEPT !.editors = @ \cup {t}]
      [] action = "remove_editor" -> [pub EXCEPT !.editors = @ \ {t}]
      [] action = "add_journalist" -> [pub EXCEPT !.journalists = @ \cup {t}]
      [] OTHER -> [pub EXCEPT !.journalists = @ \ {t}]

\* the role CustomUser.objects.get(..., role=...) asks of the target
staff_role_of_actor(action) ==
    IF action \in {"add_editor", "remove_editor"} THEN "journalist" ELSE "editor"

staff_role(action) ==
    IF action \in {"add_editor", "remove_editor"} THEN "editor" ELSE "journalist"

\* a variant of resolves that accepts an account of any role
resolves_any_role(t, r) == t \in Accounts

\* CustomUser.objects.get(username=t, role=r) finds a user
resolves(t, r) == t \in Accounts /\ role[t] = r

\* manage_publisher: the owner or an editor of p adds or removes staff
manage_publisher(u, p, action, t) ==
    IF p \notin DOMAIN publishers
    THEN /\ response' = Response("manage_publisher", "notfound")
         /\ UNCHANGED store
    ELSE IF u # publishers[p].owner /\ u \notin publishers[p].editors
    THEN /\ response' = Response("manage_publisher", "denied")
         /\ UNCHANGED store
    ELSE IF ~resolves(t, staff_role(action))
    THEN /\ response' = Response("manage_publisher", "notfound")
         /\ UNCHANGED store
    ELSE /\ publishers' = [publishers EXCEPT ![p] = staff_change(@, action, t)]
         /\ response' = Response("manage_publisher", "ok")
         /\ UNCHANGED <<role, is_staff, subscribed_publishers,
                        subscribed_journalists, articles, next_article_id,
                        newsletters, next_newsletter_id>>

(***************************************************************************)
(* Articles (views.py, forms.py).                                          *)
(***************************************************************************)
\* ArticleForm.is_valid(): title and content are required, and the publisher
\* is blank or one of the queryset ArticleForm.__init__ was given, the
\* acting user's associated_publishers
ArticleForm_is_valid_any_publisher(u, t, p) ==
    /\ t # Blank
    /\ p = NullPublisher \/ p \in DOMAIN publishers

ArticleForm_is_valid(u, t, p) ==
    /\ t # Blank
    /\ p = NullPublisher \/ p \in associated_publishers(u)

\* a variant of initial_approval that sends every new article to review
initial_approval_pending(p) == FALSE

\* create_article: is_approved of the new article, from its publisher
initial_approval(p) == p = NullPublisher

\* a variant of may_change that admits every journalist, not only the author
may_change_any_author(u, author) == role[u] \in {"journalist", "editor"}

\* the permission test of edit_article, delete_article, edit_newsletter and
\* delete_newsletter: the author, or anyone whose role is editor
may_change(u, author) == u = author \/ role[u] = "editor"

\* a variant of may_approve that asks for the role only
may_approve_any_editor(u, art) == TRUE

\* a variant of may_approve that checks membership on the first approval only
may_approve_once(u, art) ==
    \/ art.is_approved
    \/ art.publisher = NullPublisher
    \/ u \in publishers[art.publisher].editors
    \/ u = publishers[art.publisher].owner

\* approve_article skips the approval of art by u with "You can only approve
\* articles from your publishing house" when this is false
may_approve(u, art) ==
    ~ ( /\ art.publisher # NullPublisher
        /\ u \notin publishers[art.publisher].editors
        /\ u # publishers[art.publisher].owner
        /\ art.publisher \notin user_publishers(u) )

\* the fields approve_article writes before article.save()
approved(art, u) ==
    [art EXCEPT !.is_approved = TRUE, !.approved_by = u, !.approved_at = Now]

\* create_article: a journalist stores a new article
create_article(u, t, p) ==
    IF role[u] # "journalist"
    THEN /\ response' = Response("create_article", "denied")
         /\ UNCHANGED store
    ELSE IF ~ArticleForm_is_valid(u, t, p)
    THEN /\ response' = Response("create_article", "invalid")
         /\ UNCHANGED store
    ELSE /\ next_article_id <= MaxArticles
         /\ articles' = articles @@ (next_article_id :>
                [title |-> t, journalist |-> u, publisher |-> p,
                 is_approved |-> initial_approval(p),
                 approved_by |-> NullUser, approved_at |-> NullTime])
         /\ next_article_id' = next_article_id + 1
         /\ response' = Response("create_article", "ok")
         /\ UNCHANGED <<role, is_staff, subscribed_publishers,
                        subscribed_journalists, publishers,
                        newsletters, next_newsletter_id>>

\* a variant of edit_article whose save sends the article back to review
edit_article_resets_approval(u, a, t, p) ==
    IF a \notin DOMAIN articles
    THEN /\ response' = Response("edit_article", "notfound")
         /\ UNCHANGED store
    ELSE IF ~may_change(u, articles[a].journalist)
    THEN /\ response' = Response("edit_article", "denied")
         /\ UNCHANGED store
    ELSE IF ~ArticleForm_is_valid(u, t, p)
    THEN /\ response' = Response("edit_article", "invalid")
         /\ UNCHANGED store
    ELSE /\ articles' = [articles EXCEPT ![a].title = t, ![a].publisher = p,
                                         ![a].is_approved = FALSE,
                                         ![a].approved_by = NullUser,
                                         ![a].approved_at = NullTime]
         /\ response' = Response("edit_article", "ok")
         /\ UNCHANGED <<role, is_staff, subscribed_publishers,
                        subscribed_journalists, publishers, next_article_id,
                        newsletters, next_newsletter_id>>

\* edit_article: the author or an editor saves title, content and publisher
edit_article(u, a, t, p) ==
    IF a \notin DOMAIN articles
    THEN /\ response' = Response("edit_article", "notfound")
         /\ UNCHANGED store
    ELSE IF ~may_change(u, articles[a].journalist)
    THEN /\ response' = Response("edit_article", "denied")
         /\ UNCHANGED store
    ELSE IF ~ArticleForm_is_valid(u, t, p)
    THEN /\ response' = Response("edit_article", "invalid")
         /\ UNCHANGED store
    ELSE /\ articles' = [articles EXCEPT ![a].title = t, ![a].publisher = p]
         /\ response' = Response("edit_article", "ok")
         /\ UNCHANGED <<role, is_staff, subscribed_publishers,
                        subscribed_journalists, publishers, next_article_id,
                        newsletters, next_newsletter_id>>

\* delete_article: the author or an editor deletes the article
delete_article(u, a) ==
    IF a \notin DOMAIN articles
    THEN /\ response' = Response("delete_article", "notfound")
         /\ UNCHANGED store
    ELSE IF ~may_change(u, articles[a].journalist)
    THEN /\ response' = Response("delete_article", "denied")
         /\ UNCHANGED store
    ELSE /\ articles' = [x \in DOMAIN articles \ {a} |-> articles[x]]
         /\ response' = Response("delete_article", "ok")
         /\ UNCHANGED <<role, is_staff, subscribed_publishers,
                        subscribed_journalists, publishers, next_article_id,
                        newsletters, next_newsletter_id>>

\* a variant of approve_article that keeps the approval only when the tweet
\* was sent
approve_article_rolls_back(u, a, sent) ==
    IF role[u] # "editor"
    THEN /\ response' = Response("approve_article", "denied")
         /\ UNCHANGED store
    ELSE IF a \notin DOMAIN articles
    THEN /\ response' = Response("approve_article", "notfound")
         /\ UNCHANGED store
    ELSE IF ~may_approve(u, articles[a])
    THEN /\ response' = Response("approve_article", "denied")
         /\ UNCHANGED store
    ELSE /\ articles' = IF sent THEN [articles EXCEPT ![a] = approved(@, u)]
                        ELSE articles
         /\ response' = Response("approve_article", IF sent THEN "ok" ELSE "warning")
         /\ UNCHANGED <<role, is_staff, subscribed_publishers,
                        subscribed_journalists, publishers, next_article_id,
                        newsletters, next_newsletter_id>>

\* approve_article: an editor of the article's publisher approves it; sent is
\* what send_tweet returned
approve_article(u, a, sent) ==
    IF role[u] # "editor"
    THEN /\ response' = Response("approve_article", "denied")
         /\ UNCHANGED store
    ELSE IF a \notin DOMAIN articles
    THEN /\ response' = Response("approve_article", "notfound")
         /\ UNCHANGED store
    ELSE IF ~may_approve(u, articles[a])
    THEN /\ response' = Response("approve_article", "denied")
         /\ UNCHANGED store
    ELSE /\ articles' = [articles EXCEPT ![a] = approved(@, u)]
         /\ response' = Response("approve_article", IF sent THEN "ok" ELSE "warning")
         /\ UNCHANGED <<role, is_staff, subscribed_publishers,
                        subscribed_journalists, publishers, next_article_id,
                        newsletters, next_newsletter_id>>

\* a variant of may_view that also admits the staff of the article's publisher
may_view_publisher_staff(u, art) ==
    \/ art.is_approved
    \/ u \in {art.journalist, art.approved_by}
    \/ /\ art.publisher \in DOMAIN publishers
       /\ \/ u = publishers[art.publisher].owner
          \/ u \in publishers[art.publisher].editors

\* article_detail redirects u with "You don't have permission to view this
\* article" when this is false
may_view(u, art) ==
    ~ (~art.is_approved /\ u \notin {art.journalist, art.approved_by})

\* article_detail: the page of one article; it writes nothing
article_detail(u, a) ==
    /\ response' = Response("article_detail",
                        IF a \notin DOMAIN articles THEN "notfound"
                        ELSE IF ~may_view(u, articles[a]) THEN "denied"
                        ELSE "shown")
    /\ UNCHANGED store

(***************************************************************************)
(* Newsletters (views.py, forms.py).                                       *)
(***************************************************************************)
\* NewsletterForm.is_valid(): title and content are required, the publisher
\* is blank or any existing publisher
NewsletterForm_is_valid(t, p) ==
    /\ t # Blank
    /\ p = NullPublisher \/ p \in DOMAIN publishers

\* create_newsletter: a journalist stores a new newsletter
create_newsletter(u, t, p) ==
    IF role[u] # "journalist"
    THEN /\ response' = Response("create_newsletter", "denied")
         /\ UNCHANGED store
    ELSE IF ~NewsletterForm_is_valid(t, p)
    THEN /\ response' = Response("create_newsletter", "invalid")
         /\ UNCHANGED store
    ELSE /\ next_newsletter_id <= MaxNewsletters
         /\ newsletters' = newsletters @@ (next_newsletter_id :>
                [title |-> t, created_by |-> u, publisher |-> p,
                 is_published |-> FALSE])
         /\ next_newsletter_id' = next_newsletter_id + 1
         /\ response' = Response("create_newsletter", "ok")
         /\ UNCHANGED <<role, is_staff, subscribed_publishers,
                        subscribed_journalists, publishers, articles,
                        next_article_id>>

\* edit_newsletter: the creator or an editor saves title, content and publisher
edit_newsletter(u, n, t, p) ==
    IF n \notin DOMAIN newsletters
    THEN /\ response' = Response("edit_newsletter", "notfound")
         /\ UNCHANGED store
    ELSE IF ~may_change(u, newsletters[n].created_by)
    THEN /\ response' = Response("edit_newsletter", "denied")
         /\ UNCHANGED store
    ELSE IF ~NewsletterForm_is_valid(t, p)
    THEN /\ response' = Response("edit_newsletter", "invalid")
         /\ UNCHANGED store
    ELSE /\ newsletters' = [newsletters EXCEPT ![n].title = t, ![n].publisher = p]
         /\ response' = Response("edit_newsletter", "ok")
         /\ UNCHANGED <<role, is_staff, subscribed_publishers,
                        subscribed_journalists, publishers, articles,
                        next_article_id, next_newsletter_id>>

\* delete_newsletter: the creator or an editor deletes the newsletter
delete_newsletter(u, n) ==
    IF n \notin DOMAIN newsletters
    THEN /\ response' = Response("delete_newsletter", "notfound")
         /\ UNCHANGED store
    ELSE IF ~may_change(u, newsletters[n].created_by)
    THEN /\ response' = Response("delete_newsletter", "denied")
         /\ UNCHANGED store
    ELSE /\ newsletters' = [x \in DOMAIN newsletters \ {n} |-> newsletters[x]]
         /\ response' = Response("delete_newsletter", "ok")
         /\ UNCHANGED <<role, is_staff, subscribed_publishers,
                        subscribed_journalists, publishers, articles,
                        next_article_id, next_newsletter_id>>

(***************************************************************************)
(* Subscriptions (views.py).                                               *)
(***************************************************************************)
\* the id lists a request can carry: getlist('publishers') names existing
\* publishers, getlist('journalists') names accounts of any role
BoundedSubsets(S) == {T \in SUBSET S : Cardinality(T) <= MaxFollow}

\* a variant of manage_subscriptions that adds to the sets the reader has
manage_subscriptions_adding(u, ps, js) ==
    IF role[u] # "reader"
    THEN /\ response' = Response("manage_subscriptions", "denied")
         /\ UNCHANGED store
    ELSE /\ subscribed_publishers' =
                [subscribed_publishers EXCEPT ![u] = @ \cup ps]
         /\ subscribed_journalists' =
                [subscribed_journalists EXCEPT ![u] = @ \cup js]
         /\ response' = Response("manage_subscriptions", "ok")
         /\ UNCHANGED <<role, is_staff, publishers, articles, next_article_id,
                        newsletters, next_newsletter_id>>

\* manage_subscriptions: a reader replaces both subscription sets
manage_subscriptions(u, ps, js) ==
    IF role[u] # "reader"
    THEN /\ response' = Response("manage_subscriptions", "denied")
         /\ UNCHANGED store
    ELSE IF ~(ps \subseteq DOMAIN publishers)
    THEN \* subscribed_publishers.set(...) raises; nothing was written
         /\ response' = Response("manage_subscriptions", "error")
         /\ UNCHANGED store
    ELSE IF ~(js \subseteq Accounts)
    THEN \* subscribed_publishers.set(...) has been committed when
         \* subscribed_journalists.set(...) raises
         /\ subscribed_publishers' = [subscribed_publishers EXCEPT ![u] = ps]
         /\ response' = Response("manage_subscriptions", "error")
         /\ UNCHANGED <<role, is_staff, subscribed_journalists, publishers,
                        articles, next_article_id, newsletters,
                        next_newsletter_id>>
    ELSE /\ subscribed_publishers' = [subscribed_publishers EXCEPT ![u] = ps]
         /\ subscribed_journalists' = [subscribed_journalists EXCEPT ![u] = js]
         /\ response' = Response("manage_subscriptions", "ok")
         /\ UNCHANGED <<role, is_staff, publishers, articles, next_article_id,
                        newsletters, next_newsletter_id>>

(***************************************************************************)
(* Feeds (api_views.py, views.py).                                         *)
(***************************************************************************)
\* a variant of get_queryset whose reader branch matches publishers only
get_queryset_publishers_only(u) ==
    LET approved_ids == {a \in DOMAIN articles : articles[a].is_approved}
        queryset ==
            IF role[u] = "reader"
            THEN {a \in approved_ids :
                    articles[a].publisher \in subscribed_publishers[u]}
            ELSE approved_ids
    IN newest_first(queryset)

\* a variant of get_queryset that also shows a non-reader its own drafts
get_queryset_own_drafts(u) ==
    LET approved_ids == {a \in DOMAIN articles : articles[a].is_approved}
        queryset ==
            IF role[u] = "reader"
            THEN {a \in approved_ids :
                    \/ articles[a].publisher \in subscribed_publishers[u]
                    \/ articles[a].journalist \in subscribed_journalists[u]}
            ELSE approved_ids \cup
                 {a \in DOMAIN articles : articles[a].journalist = u}
    IN newest_first(queryset)

\* ArticleViewSet.get_queryset for request.user = u
get_queryset(u) ==
    LET approved_ids == {a \in DOMAIN articles : articles[a].is_approved}
        queryset ==
            IF role[u] = "reader"
            THEN {a \in approved_ids :
                    \/ articles[a].publisher \in subscribed_publishers[u]
                    \/ articles[a].journalist \in subscribed_journalists[u]}
            ELSE approved_ids
    IN newest_first(queryset)

DashboardLimit == 10

\* dashboard, reader branch: context['articles']
dashboard_articles(u) ==
    LET approved_ids == {a \in DOMAIN articles : articles[a].is_approved}
    IN Slice(newest_first({a \in approved_ids :
                \/ articles[a].publisher \in subscribed_publishers[u]
                \/ articles[a].journalist \in subscribed_journalists[u]}),
             DashboardLimit)

\* a variant of home that leaves the slice out
home_unlimited ==
    newest_first({a \in DOMAIN articles : articles[a].is_approved})

\* dashboard, editor branch: context['pending_articles'], the unapproved
\* articles of the journalists who belong to, or have written for, a
\* publisher the editor owns or edits
pending_articles(u) ==
    LET journalist_ids ==
            {j \in Users :
                \/ associated_publishers(j) \cap user_publishers(u) # {}
                \/ \E a \in DOMAIN articles :
                      /\ articles[a].journalist = j
                      /\ articles[a].publisher \in user_publishers(u)}
    IN newest_first({a \in DOMAIN articles :
                        /\ ~articles[a].is_approved
                        /\ articles[a].journalist \in journalist_ids})

\* home: the newest approved articles
home ==
    Slice(newest_first({a \in DOMAIN articles : articles[a].is_approved}),
          DashboardLimit)

\* the home page: it renders home for any visitor and writes nothing
home_view ==
    /\ response' = Response("home", "ok")
    /\ UNCHANGED store

(***************************************************************************)
(* The REST write surface (api_views.py, serializers.py) and the admin     *)
(* bulk approval (admin.py).                                               *)
(***************************************************************************)
\* the fields ArticleSerializer (fields = '__all__') accepts from a client;
\* created_at and updated_at are set by the store and read-only
WritableFields ==
    {"title", "journalist", "publisher", "is_approved", "approved_by", "approved_at"}

\* ArticleSerializer.is_valid() for one submitted field: the text is not
\* blank, a related row exists and meets the field's limit_choices_to, a
\* nullable relation may be null
field_valid(f, v) ==
    CASE f = "title" -> v # Blank
      [] f = "journalist" -> v \in Accounts /\ role[v] = "journalist"
      [] f = "publisher" -> v = NullPublisher \/ v \in DOMAIN publishers
      [] f = "is_approved" -> v \in BOOLEAN
      [] f = "approved_by" -> v = NullUser \/ (v \in Accounts /\ role[v] = "editor")
      [] OTHER -> v \in {NullTime, Now}

ArticleSerializer_is_valid(data) ==
    \A f \in WritableFields : field_valid(f, data[f])

\* the values a client can submit for a field
FieldValues(f) ==
    CASE f = "title" -> {"t1", Blank}
      [] f = "journalist" -> Accounts
      [] f = "publisher" -> PublisherChoices
      [] f = "is_approved" -> BOOLEAN
      [] f = "approved_by" -> Accounts \cup {NullUser}
      [] OTHER -> {NullTime, Now}

ArticleData ==
    [title : FieldValues("title"), journalist : FieldValues("journalist"),
     publisher : FieldValues("publisher"), is_approved : FieldValues("is_approved"),
     approved_by : FieldValues("approved_by"), approved_at : FieldValues("approved_at")]

\* ArticleViewSet.create (POST /api/articles/): any authenticated user
api_article_create(u, data) ==
    IF ~ArticleSerializer_is_valid(data)
    THEN /\ response' = Response("api_article_create", "invalid")
         /\ UNCHANGED store
    ELSE /\ next_article_id <= MaxArticles
         /\ articles' = articles @@ (next_article_id :> data)
         /\ next_article_id' = next_article_id + 1
         /\ response' = Response("api_article_create", "ok")
         /\ UNCHANGED <<role, is_staff, subscribed_publishers,
                        subscribed_journalists, publishers,
                        newsletters, next_newsletter_id>>

\* ArticleViewSet.update (PUT /api/articles/<a>/): get_object() looks the
\* article up in get_queryset(), then the serializer saves every field
api_article_update(u, a, data) ==
    IF a \notin Range(get_queryset(u))
    THEN /\ response' = Response("api_article_update", "notfound")
         /\ UNCHANGED store
    ELSE IF ~ArticleSerializer_is_valid(data)
    THEN /\ response' = Response("api_article_update", "invalid")
         /\ UNCHANGED store
    ELSE /\ articles' = [articles EXCEPT ![a] = data]
         /\ response' = Response("api_article_update", "ok")
         /\ UNCHANGED <<role, is_staff, subscribed_publishers,
                        subscribed_journalists, publishers, next_article_id,
                        newsletters, next_newsletter_id>>

\* ArticleViewSet.partial_update (PATCH /api/articles/<a>/) of one field
api_article_partial_update(u, a, f, v) ==
    IF a \notin Range(get_queryset(u))
    THEN /\ response' = Response("api_article_partial_update", "notfound")
         /\ UNCHANGED store
    ELSE IF ~field_valid(f, v)
    THEN /\ response' = Response("api_article_partial_update", "invalid")
         /\ UNCHANGED store
    ELSE /\ articles' = [articles EXCEPT ![a][f] = v]
         /\ response' = Response("api_article_partial_update", "ok")
         /\ UNCHANGED <<role, is_staff, subscribed_publishers,
                        subscribed_journalists, publishers, next_article_id,
                        newsletters, next_newsletter_id>>

\* ArticleViewSet.destroy (DELETE /api/articles/<a>/)
api_article_destroy(u, a) ==
    IF a \notin Range(get_queryset(u))
    THEN /\ response' = Response("api_article_destroy", "notfound")
         /\ UNCHANGED store
    ELSE /\ articles' = [x \in DOMAIN articles \ {a} |-> articles[x]]
         /\ response' = Response("api_article_destroy", "ok")
         /\ UNCHANGED <<role, is_staff, subscribed_publishers,
                        subscribed_journalists, publishers, next_article_id,
                        newsletters, next_newsletter_id>>

\* NewsletterViewSet.get_queryset for request.user = u
newsletter_queryset(u) ==
    LET published == {n \in DOMAIN newsletters : newsletters[n].is_published}
        queryset ==
            IF role[u] = "reader"
            THEN {n \in published :
                    \/ newsletters[n].publisher \in subscribed_publishers[u]
                    \/ newsletters[n].created_by \in subscribed_journalists[u]}
            ELSE published
    IN newest_first(queryset)

\* dashboard, reader branch: context['newsletters']
dashboard_newsletters(u) ==
    LET published == {n \in DOMAIN newsletters : newsletters[n].is_published}
    IN Slice(newest_first({n \in published :
                \/ newsletters[n].publisher \in subscribed_publishers[u]
                \/ newsletters[n].created_by \in subscribed_journalists[u]}),
             DashboardLimit)

\* NewsletterSerializer (fields = '__all__').is_valid(): every model field
\* but created_at is writable, is_published included
NewsletterSerializer_is_valid(data) ==
    /\ data.title # Blank
    /\ data.created_by \in Accounts /\ role[data.created_by] = "journalist"
    /\ data.publisher = NullPublisher \/ data.publisher \in DOMAIN publishers
    /\ data.is_published \in BOOLEAN

NewsletterData ==
    [title : {"t1", Blank}, created_by : Accounts,
     publisher : PublisherChoices, is_published : BOOLEAN]

\* NewsletterViewSet.create (POST /api/newsletters/): any authenticated user
api_newsletter_create(u, data) ==
    IF ~NewsletterSerializer_is_valid(data)
    THEN /\ response' = Response("api_newsletter_create", "invalid")
         /\ UNCHANGED store
    ELSE /\ next_newsletter_id <= MaxNewsletters
         /\ newsletters' = newsletters @@ (next_newsletter_id :> data)
         /\ next_newsletter_id' = next_newsletter_id + 1
         /\ response' = Response("api_newsletter_create", "ok")
         /\ UNCHANGED <<role, is_staff, subscribed_publishers,
                        subscribed_journalists, publishers, articles,
                        next_article_id>>

\* NewsletterViewSet.update (PUT /api/newsletters/<n>/): get_object() looks
\* the newsletter up in get_queryset(), then the serializer saves every field
api_newsletter_update(u, n, data) ==
    IF n \notin Range(newsletter_queryset(u))
    THEN /\ response' = Response("api_newsletter_update", "notfound")
         /\ UNCHANGED store
    ELSE IF ~NewsletterSerializer_is_valid(data)
    THEN /\ response' = Response("api_newsletter_update", "invalid")
         /\ UNCHANGED store
    ELSE /\ newsletters' = [newsletters EXCEPT ![n] = data]
         /\ response' = Response("api_newsletter_update", "ok")
         /\ UNCHANGED <<role, is_staff, subscribed_publishers,
                        subscribed_journalists, publishers, articles,
                        next_article_id, next_newsletter_id>>

\* ArticleAdmin.approve_articles: what the loop body writes to one article
admin_approved(art, u) ==
    [art EXCEPT !.is_approved = TRUE, !.approved_by = u]

\* ArticleAdmin.approve_articles on the selected articles; the admin site
\* admits staff accounts only
approve_articles(u, queryset) ==
    IF u \notin is_staff
    THEN /\ response' = Response("approve_articles", "denied")
         /\ UNCHANGED store
    ELSE /\ articles' = [a \in DOMAIN articles |->
                            IF a \in queryset THEN admin_approved(articles[a], u)
                            ELSE articles[a]]
         /\ response' = Response("approve_articles", "ok")
         /\ UNCHANGED <<role, is_staff, subscribed_publishers,
                        subscribed_journalists, publishers, next_article_id,
                        newsletters, next_newsletter_id>>

ROLE_CHOICES == {"reader", "journalist", "editor"}

\* CustomUserAdmin: the change form of one account saves the role and both
\* subscription relations it was submitted with; CustomUser.save clears the
\* relations of a journalist only when the account is being created, and
\* the form stores its relations after save.  The admin site admits staff
\* accounts only
admin_user_change(u, target, r, ps, js) ==
    IF u \notin is_staff
    THEN /\ response' = Response("admin_user_change", "denied")
         /\ UNCHANGED store
    ELSE /\ role' = [role EXCEPT ![target] = r]
         /\ subscribed_publishers' = [subscribed_publishers EXCEPT ![target] = ps]
         /\ subscribed_journalists' = [subscribed_journalists EXCEPT ![target] = js]
         /\ response' = Response("admin_user_change", "ok")
         /\ UNCHANGED <<is_staff, publishers, articles, next_article_id,
                        newsletters, next_newsletter_id>>

(***************************************************************************)
(* History: the publisher each existing article was created with.          *)
(***************************************************************************)
History ==
    /\ submitted_to' =
          [a \in DOMAIN articles' |->
              IF a \in DOMAIN submitted_to THEN submitted_to[a]
              ELSE articles'[a].publisher]
    /\ UNCHANGED bundles

(***************************************************************************)
(* The requests.  Each is a view with its inputs drawn from the accounts   *)
(* and the ids a request can name.                                         *)
(***************************************************************************)
RegisterPublisher ==
    /\ \E u \in Accounts : register_publisher(u)
    /\ UNCHANGED <<submitted_to, bundles>>
JoinPublisher ==
    /\ \E u \in Accounts, p \in PublisherIds : join_publisher(u, p)
    /\ UNCHANGED <<submitted_to, bundles>>
ManagePublisher ==
    /\ \E u \in Accounts, p \in PublisherIds, action \in StaffActions,
          t \in Accounts \cup {UnknownUser} :
          manage_publisher(u, p, action, t)
    /\ UNCHANGED <<submitted_to, bundles>>
CreateArticle ==
    /\ \E u \in Accounts, t \in {"t1", Blank}, p \in PublisherChoices :
          create_article(u, t, p)
    /\ History
EditArticle ==
    /\ \E u \in Accounts, a \in ArticleIds, t \in Titles \cup {Blank},
          p \in PublisherChoices :
          edit_article(u, a, t, p)
    /\ UNCHANGED <<submitted_to, bundles>>
DeleteArticle ==
    /\ \E u \in Accounts, a \in ArticleIds : delete_article(u, a)
    /\ History
ApproveArticle ==
    /\ \E u \in Accounts, a \in ArticleIds, sent \in BOOLEAN :
          approve_article(u, a, sent)
    /\ UNCHANGED <<submitted_to, bundles>>
ManageSubscriptions ==
    /\ \E u \in Accounts, ps \in BoundedSubsets(DOMAIN publishers),
          js \in BoundedSubsets(Accounts) :
          manage_subscriptions(u, ps, js)
    /\ UNCHANGED <<submitted_to, bundles>>

\* the same request with ids typed into the POST body: they may name no
\* publisher or no user
PostSubscriptions ==
    /\ \E u \in Accounts, ps \in BoundedSubsets(PublisherIds),
          js \in BoundedSubsets(Users \cup {UnknownUser}) :
          manage_subscriptions(u, ps, js)
    /\ UNCHANGED <<submitted_to, bundles>>

CreateNewsletter ==
    /\ \E u \in Accounts, t \in {"t1", Blank}, p \in PublisherChoices :
          create_newsletter(u, t, p)
    /\ UNCHANGED <<submitted_to, bundles>>
EditNewsletter ==
    /\ \E u \in Accounts, n \in NewsletterIds, t \in Titles \cup {Blank},
          p \in PublisherChoices :
          edit_newsletter(u, n, t, p)
    /\ UNCHANGED <<submitted_to, bundles>>
DeleteNewsletter ==
    /\ \E u \in Accounts, n \in NewsletterIds : delete_newsletter(u, n)
    /\ UNCHANGED <<submitted_to, bundles>>
ApiArticleCreate ==
    /\ \E u \in Accounts, data \in ArticleData : api_article_create(u, data)
    /\ History
ApiArticleUpdate ==
    /\ \E u \in Accounts, a \in ArticleIds, data \in ArticleData :
          api_article_update(u, a, data)
    /\ UNCHANGED <<submitted_to, bundles>>
ApiArticlePartialUpdate ==
    /\ \E u \in Accounts, a \in ArticleIds, f \in WritableFields :
          \E v \in FieldValues(f) : api_article_partial_update(u, a, f, v)
    /\ UNCHANGED <<submitted_to, bundles>>
ApiArticleDestroy ==
    /\ \E u \in Accounts, a \in ArticleIds : api_article_destroy(u, a)
    /\ History
AdminApproveArticles ==
    /\ \E u \in Accounts, queryset \in SUBSET DOMAIN articles :
          approve_articles(u, queryset)
    /\ UNCHANGED <<submitted_to, bundles>>

ArticleDetail ==
    /\ \E u \in Accounts, a \in ArticleIds : article_detail(u, a)
    /\ UNCHANGED <<submitted_to, bundles>>

Home ==
    /\ home_view
    /\ UNCHANGED <<submitted_to, bundles>>

\* the journalists field offers the accounts whose role is journalist
\* (limit_choices_to)
AdminUserChange ==
    /\ \E u \in Accounts, target \in Accounts, r \in ROLE_CHOICES,
          ps \in BoundedSubsets(DOMAIN publishers),
          js \in BoundedSubsets({j \in Accounts : role[j] = "journalist"}) :
          admin_user_change(u, target, r, ps, js)
    /\ UNCHANGED <<submitted_to, bundles>>

RegisterView ==
    /\ \E username \in Users, r \in ROLE_CHOICES \cup {UnlistedRole},
          passwords_match \in BOOLEAN :
          register_view(username, r, passwords_match)
    /\ UNCHANGED submitted_to
Dashboard ==
    /\ \E u \in Accounts : dashboard(u)
    /\ UNCHANGED <<submitted_to, bundles>>

ApiNewsletterCreate ==
    /\ \E u \in Accounts, data \in NewsletterData : api_newsletter_create(u, data)
    /\ UNCHANGED <<submitted_to, bundles>>
ApiNewsletterUpdate ==
    /\ \E u \in Accounts, n \in NewsletterIds, data \in NewsletterData :
          api_newsletter_update(u, n, data)
    /\ UNCHANGED <<submitted_to, bundles>>

(***************************************************************************)
(* Spec: publisher membership and the approval workflow of views.py, for a *)
(* reader, a journalist and two editors.                                   *)
(***************************************************************************)
Init == InitWith({"r1", "j1", "e1", "e2"})

Next ==
    \/ RegisterPublisher
    \/ JoinPublisher
    \/ ManagePublisher
    \/ CreateArticle
    \/ ApproveArticle

Spec == Init /\ [][Next]_vars

(***************************************************************************)
(* SpecFeed: subscriptions and the feeds, for a reader, two journalists    *)
(* and an editor.                                                          *)
(***************************************************************************)
InitFeed == InitWith({"r1", "j1", "j2", "e1"})

NextFeed ==
    \/ RegisterPublisher
    \/ JoinPublisher
    \/ CreateArticle
    \/ ApproveArticle
    \/ ManageSubscriptions

SpecFeed == InitFeed /\ [][NextFeed]_vars

(***************************************************************************)
(* SpecSubscribe: a reader's subscription requests with arbitrary ids in   *)
(* the POST body.                                                          *)
(***************************************************************************)
InitSubscribe == InitWith({"r1", "j1", "e1"})

NextSubscribe ==
    \/ RegisterPublisher
    \/ JoinPublisher
    \/ PostSubscriptions

SpecSubscribe == InitSubscribe /\ [][NextSubscribe]_vars

(***************************************************************************)
(* SpecSubmit: article submissions of a journalist and an editor while the *)
(* publishers' staff changes.                                              *)
(***************************************************************************)
InitSubmit == InitWith({"j1", "e1"})

NextSubmit ==
    \/ RegisterPublisher
    \/ JoinPublisher
    \/ ManagePublisher
    \/ CreateArticle
    \/ EditArticle

SpecSubmit == InitSubmit /\ [][NextSubmit]_vars

(***************************************************************************)
(* SpecEdit: the article workflow with edits, for a journalist and two     *)
(* editors.                                                                *)
(***************************************************************************)
InitEdit == InitWith({"j1", "e1", "e2"})

NextEdit ==
    \/ RegisterPublisher
    \/ JoinPublisher
    \/ CreateArticle
    \/ EditArticle
    \/ ApproveArticle

SpecEdit == InitEdit /\ [][NextEdit]_vars

(***************************************************************************)
(* SpecContent: creating, editing and deleting articles and newsletters,   *)
(* for a reader, two journalists and an editor who registers publishers.   *)
(***************************************************************************)
InitContent == InitWith({"r1", "j1", "j2", "e1"})

NextContent ==
    \/ RegisterPublisher
    \/ CreateArticle
    \/ EditArticle
    \/ DeleteArticle
    \/ CreateNewsletter
    \/ EditNewsletter
    \/ DeleteNewsletter

SpecContent == InitContent /\ [][NextContent]_vars

(***************************************************************************)
(* SpecApi: the article workflow together with the REST write surface, for *)
(* a journalist and an editor.                                             *)
(***************************************************************************)
InitApi == InitWith({"j1", "e1"})

NextApi ==
    \/ RegisterPublisher
    \/ JoinPublisher
    \/ CreateArticle
    \/ ApproveArticle
    \/ ApiArticleCreate
    \/ ApiArticleUpdate
    \/ ApiArticlePartialUpdate
    \/ ApiArticleDestroy

SpecApi == InitApi /\ [][NextApi]_vars

(***************************************************************************)
(* SpecAdmin: the article workflow together with the admin bulk approval,  *)
(* for a journalist, an editor and the site's superuser.                   *)
(***************************************************************************)
InitAdmin == InitWith({"j1", "e1", "admin"})

NextAdmin ==
    \/ RegisterPublisher
    \/ JoinPublisher
    \/ CreateArticle
    \/ ApproveArticle
    \/ AdminApproveArticles

SpecAdmin == InitAdmin /\ [][NextAdmin]_vars

(***************************************************************************)
(* SpecDetail: the article workflow, the REST partial update and the page  *)
(* of a single article, for a reader, a journalist and two editors.        *)
(***************************************************************************)
InitDetail == InitWith({"r1", "j1", "e1", "e2"})

NextDetail ==
    \/ RegisterPublisher
    \/ JoinPublisher
    \/ CreateArticle
    \/ ApproveArticle
    \/ ApiArticlePartialUpdate
    \/ ArticleDetail

SpecDetail == InitDetail /\ [][NextDetail]_vars

(***************************************************************************)
(* SpecHome: the home page over a store that already holds articles.  A    *)
(* journalist who joined an editor's publisher has written up to           *)
(* MaxHomeArticles articles, each one either independent, and so approved  *)
(* at creation, or submitted to the publisher and still pending.           *)
(***************************************************************************)
WrittenArticles ==
    { [title |-> "t1", journalist |-> "j1", publisher |-> p,
       is_approved |-> initial_approval(p),
       approved_by |-> NullUser, approved_at |-> NullTime] : p \in {NullPublisher, 1} }

InitHome ==
    /\ groups = registered_all({"j1", "e1"}, NoBundles).groups
    /\ group_permissions = registered_all({"j1", "e1"}, NoBundles).group_permissions
    /\ role = Population({"j1", "e1"})
    /\ is_staff = {}
    /\ subscribed_publishers = [u \in Users |-> {}]
    /\ subscribed_journalists = [u \in Users |-> {}]
    /\ publishers = (1 :> [owner |-> "e1", editors |-> {"e1"}, journalists |-> {"j1"}])
    /\ \E n \in 0..MaxHomeArticles :
          /\ articles \in [1..n -> WrittenArticles]
          /\ next_article_id = n + 1
    /\ newsletters = << >>
    /\ next_newsletter_id = 1
    /\ response = Response("none", "none")
    /\ submitted_to = [a \in DOMAIN articles |-> articles[a].publisher]

NextHome ==
    \/ Home
    \/ CreateArticle
    \/ ApproveArticle
    \/ DeleteArticle

SpecHome == InitHome /\ [][NextHome]_vars

(***************************************************************************)
(* SpecUsers: subscriptions together with the admin change form of an      *)
(* account, for a reader, a journalist and the site's superuser.           *)
(***************************************************************************)
InitUsers == InitWith({"r1", "j1", "admin"})

NextUsers ==
    \/ ManageSubscriptions
    \/ AdminUserChange

SpecUsers == InitUsers /\ [][NextUsers]_vars

(***************************************************************************)
(* SpecStaff: publisher membership alone, for a journalist and two         *)
(* editors.                                                                *)
(***************************************************************************)
InitStaff == InitWith({"j1", "e1", "e2"})

NextStaff ==
    \/ RegisterPublisher
    \/ JoinPublisher
    \/ ManagePublisher

SpecStaff == InitStaff /\ [][NextStaff]_vars

(***************************************************************************)
(* SpecRegister: registration from an empty user table, and the dashboard. *)
(***************************************************************************)
InitRegister == InitWith({})

NextRegister ==
    \/ RegisterView
    \/ Dashboard

SpecRegister == InitRegister /\ [][NextRegister]_vars

(***************************************************************************)
(* SpecNewsletters: the newsletter views together with the REST write      *)
(* surface of NewsletterViewSet and subscriptions, for a reader, a         *)
(* journalist and an editor.                                               *)
(***************************************************************************)
InitNewsletters == InitWith({"r1", "j1", "e1"})

NextNewsletters ==
    \/ RegisterPublisher
    \/ ManageSubscriptions
    \/ CreateNewsletter
    \/ EditNewsletter
    \/ ApiNewsletterCreate
    \/ ApiNewsletterUpdate

SpecNewsletters == InitNewsletters /\ [][NextNewsletters]_vars

(***************************************************************************)
(* Properties.                                                             *)
(***************************************************************************)
Readers == {u \in Accounts : role[u] = "reader"}

\* the owner or an editor of publisher p
on_staff(u, p) ==
    p \in DOMAIN publishers /\ (u = publishers[p].owner \/ u \in publishers[p].editors)

\* C1: for every reader R and every article A, A is in R's article feed
\* (ArticleViewSet.get_queryset, and the reader dashboard, which holds no
\* more than DashboardLimit articles here) if and only if A is approved and
\* A's publisher is one R subscribes to or A's author is a journalist R
\* subscribes to.
C1_ReaderFeed ==
    \A r \in Readers : \A a \in DOMAIN articles :
        LET matches ==
                /\ articles[a].is_approved = TRUE
                /\ \/ /\ articles[a].publisher # NullPublisher
                      /\ articles[a].publisher \in subscribed_publishers[r]
                   \/ articles[a].journalist \in subscribed_journalists[r]
        IN /\ a \in Range(get_queryset(r)) <=> matches
           /\ a \in Range(dashboard_articles(r)) <=> matches

\* C1: a reader who follows a publisher but not journalist J, and an approved
\* independent article of J that is not in the reader's feed
C1_Witness ==
    \E r \in Readers : \E a \in DOMAIN articles :
        /\ subscribed_publishers[r] # {}
        /\ articles[a].is_approved
        /\ articles[a].publisher = NullPublisher
        /\ articles[a].journalist \notin subscribed_journalists[r]
        /\ a \notin Range(get_queryset(r))
        /\ response = Response("create_article", "ok")

\* C2: for every journalist or editor U, U's article feed holds exactly the
\* approved articles, whatever U subscribes to or belongs to; no unapproved
\* article is in it, U's own included.
C2_StaffFeed ==
    \A u \in Accounts \ Readers :
        /\ Range(get_queryset(u)) = {a \in DOMAIN articles : articles[a].is_approved = TRUE}
        /\ Len(get_queryset(u)) = Cardinality(Range(get_queryset(u)))

\* C2: a journalist who belongs to a publisher, whose own article is pending
\* and so is not in the journalist's feed
C2_Witness ==
    \E u \in Accounts : \E a \in DOMAIN articles :
        /\ role[u] = "journalist"
        /\ associated_publishers(u) # {}
        /\ articles[a].journalist = u
        /\ ~articles[a].is_approved
        /\ a \notin Range(get_queryset(u))

\* what C3 says of one create_article request
C3_Create(u, t, p) ==
    create_article(u, t, p) =>
        IF role[u] = "journalist" /\ response'.outcome = "ok"
        THEN LET n == next_article_id
             IN /\ n \notin DOMAIN articles
                /\ DOMAIN articles' = DOMAIN articles \cup {n}
                /\ \A a \in DOMAIN articles : articles'[a] = articles[a]
                /\ articles'[n].journalist = u
                /\ articles'[n].publisher = p
                /\ articles'[n].is_approved = (p = NullPublisher)
                /\ articles'[n].approved_by = NullUser
                /\ articles'[n].approved_at = NullTime
        ELSE /\ articles' = articles
             /\ role[u] # "journalist" => response'.outcome = "denied"

\* C3: create_article by a journalist stores a new article whose author is
\* that journalist, pending when a publisher was chosen and approved when
\* none was, with approved_by and approved_at unset; create_article by a
\* reader or an editor is refused and adds no article.
C3_CreateArticle ==
    [][response'.view = "create_article" =>
          \A u \in Accounts, t \in Titles \cup {Blank}, p \in PublisherChoices :
              C3_Create(u, t, p)]_vars

\* C3: a pending article with a publisher, just created
C3_Witness ==
    /\ response = Response("create_article", "ok")
    /\ \E a \in DOMAIN articles :
          /\ articles[a].publisher # NullPublisher
          /\ ~articles[a].is_approved
          /\ articles[a].approved_by = NullUser
          /\ articles[a].approved_at = NullTime

\* what C4 says of one approve_article request
C4_Approve(u, a, sent) ==
    approve_article(u, a, sent) /\ a \in DOMAIN articles
                                /\ articles[a].publisher # NullPublisher =>
        LET allowed == role[u] = "editor" /\ on_staff(u, articles[a].publisher)
        IN /\ articles' # articles => allowed
           /\ ~allowed => articles' = articles /\ response'.outcome = "denied"

\* C4: approve_article on an article that has a publisher changes the article
\* only when the actor is an editor who owns the publisher or is one of its
\* editors; any other actor is refused and the article is left as it was.
C4_ApprovePermission ==
    [][response'.view = "approve_article" =>
          \A u \in Accounts, a \in ArticleIds, sent \in BOOLEAN :
              C4_Approve(u, a, sent)]_vars

\* C4: an editor who manages another publisher only was refused the approval
\* of a pending article
C4_Witness ==
    /\ response = Response("approve_article", "denied")
    /\ \E a \in DOMAIN articles : \E e \in Accounts :
          /\ role[e] = "editor"
          /\ articles[a].publisher # NullPublisher
          /\ ~articles[a].is_approved
          /\ user_publishers(e) # {}
          /\ articles[a].publisher \notin user_publishers(e)

\* C5: every operation that approves an article sets is_approved, approved_by
\* and approved_at together, so in every reachable state an article has
\* approved_by set if and only if it has approved_at set.
C5_ApprovalFieldsTogether ==
    \A a \in DOMAIN articles :
        articles[a].approved_by # NullUser <=> articles[a].approved_at # NullTime

\* C6: approved is terminal: an article that is approved stays approved for as
\* long as it exists, under every operation of the application, the REST
\* create, update and partial update included.
C6_ApprovedIsTerminal ==
    [][\A a \in DOMAIN articles \cap DOMAIN articles' :
          articles[a].is_approved => articles'[a].is_approved]_vars

\* what C7 says of one approve_article request
C7_Approve(u, a, sent) ==
    approve_article(u, a, sent) /\ a \in DOMAIN articles
                                /\ articles[a].is_approved =>
        LET passes ==
                /\ role[u] = "editor"
                /\ \/ articles[a].publisher = NullPublisher
                   \/ on_staff(u, articles[a].publisher)
        IN /\ a \in DOMAIN articles' /\ articles'[a].is_approved
           /\ ~passes => articles' = articles /\ response'.outcome = "denied"
           /\ passes => articles'[a].approved_by = u
                        /\ response'.outcome \in {"ok", "warning"}

\* C7: approve_article on an article that is already approved leaves it
\* approved, and the call is still subject to the role and membership check:
\* an actor who does not pass it, such as an editor removed from the
\* publisher's editors after a first approval, is refused and changes nothing.
C7_SecondApprove ==
    [][response'.view = "approve_article" =>
          \A u \in Accounts, a \in ArticleIds, sent \in BOOLEAN :
              C7_Approve(u, a, sent)]_vars

\* C7: the editor who approved the article is no longer on the staff of its
\* publisher, and an approval request was just refused
C7_Witness ==
    /\ response = Response("approve_article", "denied")
    /\ \E a \in DOMAIN articles :
          /\ articles[a].is_approved
          /\ articles[a].publisher # NullPublisher
          /\ articles[a].approved_by \in Accounts
          /\ ~on_staff(articles[a].approved_by, articles[a].publisher)
          /\ \A e \in Accounts \ {articles[a].approved_by} :
                role[e] = "editor" => on_staff(e, articles[a].publisher)

\* C8: in every reachable state every article with no publisher is approved,
\* whatever create_article and edit_article requests were made.
C8_IndependentIsApproved ==
    \A a \in DOMAIN articles :
        articles[a].publisher = NullPublisher => articles[a].is_approved

\* the articles of the home feed (at most DashboardLimit of them)
in_home(a) == a \in Range(home)

\* the articles of some reader's feed
in_reader_feed(a) == \E r \in Readers : a \in Range(get_queryset(r))

\* C9: an article created by a journalist with publisher P is in no reader's
\* feed and not in the home feed before an owner or editor of P has approved
\* it: the step that first shows it is an approval by such a member; and
\* right after that approval it is in the feed of every reader subscribed
\* to P.
C9_HiddenUntilApproved ==
    [][\A a \in DOMAIN articles \cap DOMAIN articles' :
          LET P == submitted_to[a]
              shown == in_home(a) \/ in_reader_feed(a)
          IN P # NullPublisher /\ ~shown /\ (in_home(a)' \/ in_reader_feed(a)') =>
                /\ \E e \in Accounts :
                      /\ role[e] = "editor"
                      /\ on_staff(e, P)
                      /\ \E sent \in BOOLEAN : approve_article(e, a, sent)
                /\ \A r \in Readers :
                      P \in subscribed_publishers[r] =>
                          (a \in Range(get_queryset(r)))']_vars

\* what C10 says of one edit_article request
C10_EditArticle(u, a, t, p) ==
    edit_article(u, a, t, p) /\ a \in DOMAIN articles =>
        LET allowed == u = articles[a].journalist \/ role[u] = "editor"
        IN /\ response'.outcome = "denied" <=> ~allowed
           /\ articles' # articles => allowed
           /\ ~allowed => articles' = articles
           /\ allowed /\ ArticleForm_is_valid(u, t, p) =>
                 /\ response'.outcome = "ok"
                 /\ articles'[a] = [articles[a] EXCEPT !.title = t, !.publisher = p]

\* what C10 says of one delete_article request
C10_DeleteArticle(u, a) ==
    delete_article(u, a) /\ a \in DOMAIN articles =>
        LET allowed == u = articles[a].journalist \/ role[u] = "editor"
        IN /\ response'.outcome = "denied" <=> ~allowed
           /\ ~allowed => articles' = articles
           /\ allowed => a \notin DOMAIN articles'

\* what C10 says of one edit_newsletter request
C10_EditNewsletter(u, n, t, p) ==
    edit_newsletter(u, n, t, p) /\ n \in DOMAIN newsletters =>
        LET allowed == u = newsletters[n].created_by \/ role[u] = "editor"
        IN /\ response'.outcome = "denied" <=> ~allowed
           /\ newsletters' # newsletters => allowed
           /\ ~allowed => newsletters' = newsletters
           /\ allowed /\ NewsletterForm_is_valid(t, p) =>
                 /\ response'.outcome = "ok"
                 /\ newsletters'[n] =
                        [newsletters[n] EXCEPT !.title = t, !.publisher = p]

\* what C10 says of one delete_newsletter request
C10_DeleteNewsletter(u, n) ==
    delete_newsletter(u, n) /\ n \in DOMAIN newsletters =>
        LET allowed == u = newsletters[n].created_by \/ role[u] = "editor"
        IN /\ response'.outcome = "denied" <=> ~allowed
           /\ ~allowed => newsletters' = newsletters
           /\ allowed => n \notin DOMAIN newsletters'

\* C10: editing or deleting an article or a newsletter through the web views
\* is permitted if and only if the actor is the item's author or has role
\* editor: a permitted delete removes the item and a permitted edit with a
\* valid form stores the submitted title and publisher; every other actor is
\* refused and the item is left unchanged and present.
C10_ChangePermission ==
    [][/\ response'.view = "delete_article" =>
             \A u \in Accounts, a \in ArticleIds : C10_DeleteArticle(u, a)
       /\ response'.view = "edit_article" =>
             \A u \in Accounts, a \in ArticleIds, t \in Titles \cup {Blank},
                p \in PublisherChoices : C10_EditArticle(u, a, t, p)
       /\ response'.view = "delete_newsletter" =>
             \A u \in Accounts, n \in NewsletterIds : C10_DeleteNewsletter(u, n)
       /\ response'.view = "edit_newsletter" =>
             \A u \in Accounts, n \in NewsletterIds, t \in Titles \cup {Blank},
                p \in PublisherChoices : C10_EditNewsletter(u, n, t, p)]_vars

\* C10: a newsletter whose edit took effect, and an article whose deletion
\* was just refused to a journalist who is not its author
C10_Witness ==
    /\ response = Response("delete_article", "denied")
    /\ \E n \in DOMAIN newsletters : newsletters[n].title = "t2"
    /\ \E a \in DOMAIN articles : \E j \in Accounts :
          role[j] = "journalist" /\ j # articles[a].journalist

\* what C11 says of one edit_article request
C11_Edit(u, a, t, p) ==
    edit_article(u, a, t, p) /\ response'.outcome = "ok" =>
        /\ a \in DOMAIN articles /\ DOMAIN articles' = DOMAIN articles
        /\ articles'[a].is_approved = articles[a].is_approved
        /\ articles'[a].approved_by = articles[a].approved_by
        /\ articles'[a].approved_at = articles[a].approved_at
        /\ articles'[a].journalist = articles[a].journalist
        /\ articles'[a].title = t
        /\ articles'[a].publisher = p
        /\ \A b \in DOMAIN articles \ {a} : articles'[b] = articles[b]

\* C11: a successful edit_article stores the submitted title and publisher
\* and leaves is_approved, approved_by, approved_at and the author of the
\* article as they were, whether the article was approved or pending, and
\* leaves every other article untouched.
C11_EditFrame ==
    [][response'.view = "edit_article" =>
          \A u \in Accounts, a \in ArticleIds, t \in Titles \cup {Blank},
             p \in PublisherChoices : C11_Edit(u, a, t, p)]_vars

\* C11: an article that an editor approved for its publisher was edited
\* afterwards and still carries its approval
C11_Witness ==
    /\ response = Response("edit_article", "ok")
    /\ \E a \in DOMAIN articles :
          /\ articles[a].title = "t2"
          /\ articles[a].publisher # NullPublisher
          /\ articles[a].is_approved
          /\ articles[a].approved_by # NullUser
          /\ articles[a].approved_at = Now

\* what C12 says of one article_detail request
C12_Detail(u, a) ==
    article_detail(u, a) /\ a \in DOMAIN articles /\ ~articles[a].is_approved =>
        /\ response'.outcome = "shown" <=>
              (u = articles[a].journalist \/ u = articles[a].approved_by)
        /\ response'.outcome # "shown" => response'.outcome = "denied"

\* C12: article_detail of an unapproved article is shown to a user exactly
\* when the user is the article's author or its approved_by; every other
\* account, the owner and the editors of the article's publisher included,
\* is refused.
C12_UnapprovedDetail ==
    [][response'.view = "article_detail" =>
          \A u \in Accounts, a \in ArticleIds : C12_Detail(u, a)]_vars

\* C12: the page of an unapproved article that has a publisher, an author and
\* an approved_by was just refused to somebody
C12_Witness ==
    /\ response = Response("article_detail", "denied")
    /\ \E a \in DOMAIN articles :
          /\ ~articles[a].is_approved
          /\ articles[a].publisher \in DOMAIN publishers
          /\ articles[a].approved_by \in Accounts
          /\ articles[a].approved_by # publishers[articles[a].publisher].owner

\* C13: article_detail applies the feed rule as well: a reader is shown the
\* page of an approved article only if the article's publisher is in the
\* reader's subscribed_publishers or its author is in the reader's
\* subscribed_journalists.
C13_DetailFollowsFeed ==
    [][response'.view = "article_detail" =>
          \A u \in Readers, a \in DOMAIN articles :
              article_detail(u, a) /\ articles[a].is_approved
                                   /\ response'.outcome = "shown" =>
                  \/ articles[a].publisher \in subscribed_publishers[u]
                  \/ articles[a].journalist \in subscribed_journalists[u]]_vars

\* C14: the home feed is the at most 10 approved articles with the latest
\* created_at, newest first: it holds no unapproved article, no article
\* twice, never more than 10 items, all approved articles when there are at
\* most 10, and it omits no approved article that is newer than one it holds.
C14_HomeFeed ==
    LET approved_ids == {a \in DOMAIN articles : articles[a].is_approved}
        feed == home
    IN /\ Len(feed) <= 10
       /\ Len(feed) = IF Cardinality(approved_ids) <= 10
                      THEN Cardinality(approved_ids) ELSE 10
       /\ \A i \in 1..Len(feed) : feed[i] \in approved_ids
       /\ \A i, j \in 1..Len(feed) : i < j => feed[i] > feed[j]
       /\ \A a \in approved_ids \ Range(feed) : \A b \in Range(feed) : a < b

\* C14: the home page was rendered over more than 10 approved articles and a
\* pending one that is newer than some article of the feed
C14_Witness ==
    /\ response = Response("home", "ok")
    /\ Cardinality({a \in DOMAIN articles : articles[a].is_approved}) > 10
    /\ Len(home) = 10
    /\ \E a \in DOMAIN articles : \E b \in Range(home) :
          ~articles[a].is_approved /\ a > b

\* what C15 says of one manage_subscriptions request
C15_Subscribe(u, ps, js) ==
    role[u] = "reader" /\ manage_subscriptions(u, ps, js) =>
        /\ response'.outcome = "ok"
        /\ subscribed_publishers'[u] = ps
        /\ subscribed_journalists'[u] = js
        /\ \A v \in Users \ {u} :
              /\ subscribed_publishers'[v] = subscribed_publishers[v]
              /\ subscribed_journalists'[v] = subscribed_journalists[v]

\* C15: manage_subscriptions by a reader replaces both subscription sets:
\* afterwards the reader's subscribed_publishers and subscribed_journalists
\* are exactly the submitted sets, whatever they were before, so nothing of
\* an earlier call survives and a kind left out of the request is emptied.
C15_ReplaceSubscriptions ==
    [][response'.view = "manage_subscriptions" =>
          \A u \in Accounts, ps \in BoundedSubsets(DOMAIN publishers),
             js \in BoundedSubsets(Accounts) : C15_Subscribe(u, ps, js)]_vars

\* C15: a reader follows the second publisher and no journalist, right after
\* a subscription request
C15_Witness ==
    /\ response = Response("manage_subscriptions", "ok")
    /\ \E r \in Readers :
          /\ subscribed_publishers[r] = {2}
          /\ subscribed_journalists[r] = {}
          /\ Cardinality(DOMAIN publishers) = 2

\* C16: in every reachable state every account whose role is journalist or
\* editor has empty subscribed_publishers and empty subscribed_journalists.
C16_StaffHoldNoSubscriptions ==
    \A u \in Accounts :
        role[u] \in {"journalist", "editor"} =>
            subscribed_publishers[u] = {} /\ subscribed_journalists[u] = {}

\* what C17 says of one register_publisher request
C17_Register(u) ==
    register_publisher(u) =>
        IF role[u] = "editor"
        THEN /\ response'.outcome = "ok"
             /\ \E id \in PublisherIds \ DOMAIN publishers :
                   /\ DOMAIN publishers' = DOMAIN publishers \cup {id}
                   /\ publishers'[id].owner = u
                   /\ u \in publishers'[id].editors
                   /\ publishers'[id].journalists = {}
             /\ \A q \in DOMAIN publishers : publishers'[q] = publishers[q]
        ELSE /\ response'.outcome = "denied"
             /\ publishers' = publishers

\* C17: register_publisher by an editor creates one publisher whose owner is
\* the acting editor, whose editors contain that editor and whose journalists
\* are empty, and leaves the other publishers as they were;
\* register_publisher by a reader or a journalist is refused and creates no
\* publisher.
C17_RegisterPublisher ==
    [][response'.view = "register_publisher" =>
          \A u \in Accounts : C17_Register(u)]_vars

\* C17: two publishers registered by two editors, each owned by its editor
\* alone, right after a registration
C17_Witness ==
    /\ response = Response("register_publisher", "ok")
    /\ DOMAIN publishers = {1, 2}
    /\ publishers[1].owner # publishers[2].owner
    /\ \A q \in DOMAIN publishers :
          /\ publishers[q].editors = {publishers[q].owner}
          /\ publishers[q].journalists = {}

\* what C18 says of one join_publisher request
C18_Join(u, p) ==
    join_publisher(u, p) /\ p \in DOMAIN publishers =>
        /\ DOMAIN publishers' = DOMAIN publishers
        /\ \A q \in DOMAIN publishers \ {p} : publishers'[q] = publishers[q]
        /\ publishers'[p].owner = publishers[p].owner
        /\ <<articles, subscribed_publishers, subscribed_journalists, role>>' =
              <<articles, subscribed_publishers, subscribed_journalists, role>>
        /\ CASE role[u] = "editor" ->
                   /\ publishers'[p].editors = publishers[p].editors \cup {u}
                   /\ publishers'[p].journalists = publishers[p].journalists
                   /\ u \in publishers[p].editors => publishers' = publishers
             [] role[u] = "journalist" ->
                   /\ publishers'[p].journalists = publishers[p].journalists \cup {u}
                   /\ publishers'[p].editors = publishers[p].editors
                   /\ u \in publishers[p].journalists => publishers' = publishers
             [] OTHER ->
                   /\ response'.outcome = "denied"
                   /\ publishers' = publishers

\* C18: join_publisher adds an editor to the publisher's editors and a
\* journalist to its journalists and changes nothing else, is refused with no
\* change for a reader, and leaves both membership sets as they were when the
\* user already belongs to the publisher.
C18_JoinPublisher ==
    [][response'.view = "join_publisher" =>
          \A u \in Accounts, p \in PublisherIds : C18_Join(u, p)]_vars

\* C18: a publisher that a second editor and a journalist have joined, right
\* after a join
C18_Witness ==
    /\ response = Response("join_publisher", "ok")
    /\ \E p \in DOMAIN publishers :
          /\ publishers[p].journalists # {}
          /\ publishers[p].editors \cap publishers[p].journalists = {}
          /\ Cardinality(publishers[p].editors) = 2
          /\ \A e \in publishers[p].editors : role[e] = "editor"
          /\ \A j \in publishers[p].journalists : role[j] = "journalist"

\* what C19 says of one manage_publisher request
C19_Manage(u, p, action, t) ==
    manage_publisher(u, p, action, t) /\ p \in DOMAIN publishers =>
        LET pub == publishers[p]
            authorized == u = pub.owner \/ u \in pub.editors
            kind == IF action \in {"add_editor", "remove_editor"}
                    THEN "editor" ELSE "journalist"
            found == t \in Accounts /\ role[t] = kind
        IN /\ publishers' # publishers => authorized
           /\ ~authorized => response'.outcome = "denied" /\ publishers' = publishers
           /\ authorized /\ ~found =>
                 response'.outcome = "notfound" /\ publishers' = publishers
           /\ authorized /\ found =>
                 /\ response'.outcome = "ok"
                 /\ publishers'[p].owner = pub.owner
                 /\ publishers'[p].editors =
                        CASE action = "add_editor" -> pub.editors \cup {t}
                          [] action = "remove_editor" -> pub.editors \ {t}
                          [] OTHER -> pub.editors
                 /\ publishers'[p].journalists =
                        CASE action = "add_journalist" -> pub.journalists \cup {t}
                          [] action = "remove_journalist" -> pub.journalists \ {t}
                          [] OTHER -> pub.journalists
           /\ \A q \in DOMAIN publishers \ {p} : publishers'[q] = publishers[q]

\* C19: the add and remove staff actions of manage_publisher change the
\* publisher's editors or journalists only when the actor is its owner or
\* one of its editors; any other actor, a journalist member included, is
\* refused with no change, and an authorized request whose target is not an
\* account of the matching role reports not-found and changes nothing.
C19_ManagePublisher ==
    [][response'.view = "manage_publisher" =>
          \A u \in Accounts, p \in PublisherIds, action \in StaffActions,
             t \in Accounts \cup {UnknownUser} : C19_Manage(u, p, action, t)]_vars

\* C19: every editor is on the staff of the one publisher, which has a
\* journalist member, and a staff request was just refused, so the refused
\* actor is no editor
C19_Witness ==
    /\ response = Response("manage_publisher", "denied")
    /\ DOMAIN publishers = {1}
    /\ publishers[1].journalists # {}
    /\ \A e \in Accounts : role[e] = "editor" => on_staff(e, 1)

\* what C20 says of one approve_article request
C20_Approve(u, a, sent) ==
    approve_article(u, a, sent) =>
        /\ response'.outcome \in {"denied", "notfound", "ok", "warning"}
        /\ response'.outcome \in {"ok", "warning"} =>
              /\ response'.outcome = IF sent THEN "ok" ELSE "warning"
              /\ articles'[a].is_approved
              /\ articles'[a].approved_by = u
              /\ articles'[a].approved_at = Now
        /\ (a \in DOMAIN articles /\ role[u] = "editor"
                                   /\ may_approve(u, articles[a])) =>
              response'.outcome \in {"ok", "warning"}

\* C20: an approve_article request that passes the checks stores the article
\* as approved (is_approved, approved_by, approved_at) whether send_tweet
\* reports success or failure; a failure only turns the reported outcome from
\* success into warning, and the request always ends with one of its
\* outcomes.
C20_ApprovalSurvivesHook ==
    [][response'.view = "approve_article" =>
          \A u \in Accounts, a \in ArticleIds, sent \in BOOLEAN :
              C20_Approve(u, a, sent)]_vars

\* C20: an article of a publisher is approved by an editor of that publisher
\* although the request ended with the tweet warning
C20_Witness ==
    /\ response = Response("approve_article", "warning")
    /\ \E a \in DOMAIN articles :
          /\ articles[a].publisher # NullPublisher
          /\ articles[a].is_approved
          /\ articles[a].approved_by \in Accounts
          /\ on_staff(articles[a].approved_by, articles[a].publisher)
          /\ articles[a].approved_at = Now

\* C21: every account has exactly one role, one of reader, journalist and
\* editor, and keeps it: no request creates an account with another role
\* value or changes the role of an existing account, and the dashboard's
\* role dispatch always reaches one of its three branches.
C21_RoleIsOneOfThree ==
    [][/\ \A u \in Users :
             /\ role'[u] \in {"none", "reader", "journalist", "editor"}
             /\ role[u] # "none" => role'[u] = role[u]
       /\ response'.view = "dashboard" =>
             response'.outcome \in {"reader", "journalist", "editor"}]_vars

\* the permissions C30 names for the group of a role
C30_Bundle(r) ==
    CASE r = "journalist" ->
             {"add_article", "change_article", "delete_article", "view_article",
              "add_newsletter", "change_newsletter", "delete_newsletter",
              "view_newsletter"}
      [] r = "editor" ->
             {"change_article", "view_article", "change_newsletter",
              "view_newsletter", "approve_article"}
      [] OTHER -> {}

\* C30: however often the role bundle assignment runs for one creation, and
\* for however many accounts of a role, every account is in exactly one
\* group, the one named after its role, and that group holds exactly the
\* permissions of the role: add, change, delete and view on Article and
\* Newsletter for journalists; change and view on both plus approve_article
\* for editors; none for readers.
C30_BundleIsIdempotent ==
    /\ \A u \in Accounts :
          /\ groups[u] = {Capitalize(role[u])}
          /\ Capitalize(role[u]) \in DOMAIN group_permissions
          /\ group_permissions[Capitalize(role[u])] = C30_Bundle(role[u])
    /\ \A u \in Users \ Accounts : groups[u] = {}

\* C30: a second journalist has just registered, next to an editor and a
\* reader
C30_Witness ==
    /\ response = Response("register_view", "ok")
    /\ Cardinality({u \in Accounts : role[u] = "journalist"}) = 2
    /\ \E u \in Accounts : role[u] = "editor"
    /\ \E u \in Accounts : role[u] = "reader"

\* C22: no operation yields a newsletter with is_published = TRUE, the REST
\* create and update included, so in every reachable state the newsletter
\* feed of every viewer (NewsletterViewSet.get_queryset and the reader
\* dashboard) is empty.
C22_NoPublishedNewsletter ==
    /\ \A n \in DOMAIN newsletters : ~newsletters[n].is_published
    /\ \A u \in Accounts :
          /\ newsletter_queryset(u) = << >>
          /\ dashboard_newsletters(u) = << >>

\* C23: the pending list of the editor dashboard is, for every editor E,
\* exactly the unapproved articles whose publisher E owns or edits: it holds
\* every such article, no unapproved article of a publisher E does not
\* manage and no unapproved article without a publisher.
C23_PendingList ==
    \A e \in Accounts :
        role[e] = "editor" =>
            Range(pending_articles(e)) =
                {a \in DOMAIN articles :
                    /\ ~articles[a].is_approved
                    /\ articles[a].publisher # NullPublisher
                    /\ on_staff(e, articles[a].publisher)}

\* C24: every article that has a publisher and is approved carries, in
\* approved_by, the editor who approved it; no sequence of a journalist's
\* operations alone yields an approved article of a publisher.
C24_ApprovedByEditor ==
    \A a \in DOMAIN articles :
        (articles[a].publisher # NullPublisher /\ articles[a].is_approved) =>
            /\ articles[a].approved_by \in Accounts
            /\ role[articles[a].approved_by] = "editor"

\* C25: in every reachable state the owner of every publisher, when set, has
\* role editor, every member of its editors has role editor and every member
\* of its journalists has role journalist, whatever sequence of
\* register_publisher, join_publisher and manage_publisher requests led there.
C25_StaffRoles ==
    \A p \in DOMAIN publishers :
        /\ publishers[p].owner # NullUser =>
              publishers[p].owner \in Accounts /\ role[publishers[p].owner] = "editor"
        /\ \A e \in publishers[p].editors : e \in Accounts /\ role[e] = "editor"
        /\ \A j \in publishers[p].journalists :
              j \in Accounts /\ role[j] = "journalist"

\* C25: a staff request has just succeeded on a publisher that has two
\* editors and a journalist
C25_Witness ==
    /\ response = Response("manage_publisher", "ok")
    /\ \E p \in DOMAIN publishers :
          /\ Cardinality(publishers[p].editors) = 2
          /\ Cardinality(publishers[p].journalists) = 1

\* C26: in every reachable state every member of a reader's
\* subscribed_journalists is an existing user with role journalist;
\* manage_subscriptions never leaves a reader, an editor or the subscribing
\* reader itself in that set.
C26_FollowsJournalists ==
    \A u \in Accounts :
        role[u] = "reader" =>
            \A j \in subscribed_journalists[u] :
                j \in Accounts /\ role[j] = "journalist"

\* what C27 says of one manage_subscriptions request
C27_Subscribe(u, ps, js) ==
    manage_subscriptions(u, ps, js) /\ response'.outcome = "error" =>
        /\ subscribed_publishers'[u] = subscribed_publishers[u]
        /\ subscribed_journalists'[u] = subscribed_journalists[u]

\* C27: a subscription request is all-or-nothing: when replacing the
\* journalist subscriptions fails, on an id that resolves to no user, after
\* the publisher subscriptions were replaced, the reader's publisher
\* subscriptions are back at their value from before the request.
C27_AllOrNothing ==
    [][response'.view = "manage_subscriptions" =>
          \A u \in Accounts, ps \in BoundedSubsets(PublisherIds),
             js \in BoundedSubsets(Users \cup {UnknownUser}) :
             C27_Subscribe(u, ps, js)]_vars

\* the publisher p is one whose journalists contain u
C28_Member(u, p) == p \in DOMAIN publishers /\ u \in publishers[p].journalists

\* what C28 says of one create_article request
C28_Create(u, t, p) ==
    create_article(u, t, p) =>
        /\ response'.outcome = "ok" =>
              /\ articles'[next_article_id].publisher = p
              /\ p = NullPublisher \/ C28_Member(u, p)
        /\ (role[u] = "journalist" /\ p # NullPublisher /\ ~C28_Member(u, p)) =>
              response'.outcome = "invalid" /\ articles' = articles

\* what C28 says of one edit_article request
C28_Edit(u, a, t, p) ==
    edit_article(u, a, t, p) =>
        /\ response'.outcome = "ok" =>
              /\ articles'[a].publisher = p
              /\ p = NullPublisher \/ C28_Member(u, p)
              /\ role[u] = "editor" => articles'[a].publisher = NullPublisher
        /\ (/\ a \in DOMAIN articles
            /\ may_change(u, articles[a].journalist)
            /\ p # NullPublisher
            /\ ~C28_Member(u, p)) =>
              response'.outcome = "invalid" /\ articles' = articles

\* C28: after a successful create_article or edit_article the stored
\* publisher of the article is none or a publisher whose journalists contain
\* the acting user at that moment; a submission naming any other publisher is
\* invalid and leaves the articles unchanged. A successful edit by an editor
\* therefore leaves the article without a publisher, and an author removed
\* from the publisher cannot save an edit that keeps it.
C28_SubmittedPublisher ==
    [][response'.view \in {"create_article", "edit_article"} =>
          \A u \in Accounts, t \in Titles \cup {Blank}, p \in PublisherChoices :
              /\ C28_Create(u, t, p)
              /\ \A a \in ArticleIds : C28_Edit(u, a, t, p)]_vars

\* C28: an edit was just refused as invalid while the article belongs to a
\* publisher whose journalists no longer contain its author
C28_Witness ==
    /\ response = Response("edit_article", "invalid")
    /\ \E a \in DOMAIN articles :
          /\ articles[a].publisher # NullPublisher
          /\ articles[a].journalist \notin
                 publishers[articles[a].publisher].journalists

\* the editor e can, by its own join_publisher request, become one of the
\* editors of p, with the articles left as they are
C29_CanJoin(e, p) ==
    ENABLED ( /\ join_publisher(e, p)
              /\ response' = Response("join_publisher", "ok")
              /\ e \in publishers'[p].editors
              /\ articles' = articles
              /\ UNCHANGED <<submitted_to, bundles>> )

\* the editor e can, by its own approve_article request, turn a into an
\* approved article with approved_by = e
C29_CanApprove(e, a) ==
    ENABLED ( /\ approve_article(e, a, TRUE)
              /\ response' = Response("approve_article", "ok")
              /\ articles'[a].is_approved
              /\ articles'[a].approved_by = e
              /\ UNCHANGED <<submitted_to, bundles>> )

\* C29: join_publisher by an editor needs no action or consent of the
\* publisher's owner or editors: in every reachable state every editor E can
\* join every publisher P by its own request, and once among P's editors E
\* can approve any pending article of P by its own request, which stores
\* approved_by = E.
C29_JoinThenApprove ==
    \A e \in Accounts :
        role[e] = "editor" =>
            \A p \in DOMAIN publishers :
                /\ C29_CanJoin(e, p)
                /\ e \in publishers[p].editors =>
                      \A a \in DOMAIN articles :
                          (articles[a].publisher = p /\ ~articles[a].is_approved)
                              => C29_CanApprove(e, a)

\* C29: an article submitted to a publisher has just been approved by an
\* editor who is among the publisher's editors without being its owner
C29_Witness ==
    /\ response = Response("approve_article", "ok")
    /\ \E a \in DOMAIN articles :
          LET p == articles[a].publisher
          IN /\ p # NullPublisher
             /\ submitted_to[a] = p
             /\ articles[a].is_approved
             /\ articles[a].approved_by \in publishers[p].editors
             /\ articles[a].approved_by # publishers[p].owner

====
